---- MODULE Spec2Model ----
(***************************************************************************)
(* A model of the cogni-agent query orchestrator:                          *)
(*   - CognizanceAgent.process_query (src/agent/agent.py): the multi-model *)
(*     retry / failover loop around the provider call;                     *)
(*   - the chat handler of src/api/routes.py: history windowing, the       *)
(*     summary cache, background summarization jobs and the expiry sweep.  *)
(*                                                                         *)
(* Texts are sequences of tokens (the token " " is whitespace), so that    *)
(* str.strip(), f-string composition and emptiness are computed rather     *)
(* than assumed.  None is the Python None.                                 *)
(***************************************************************************)
EXTENDS Integers, Sequences, FiniteSets, TLC

VARIABLES
    pq,             \* the locals of one process_query invocation: the one of
                    \* SpecPQ, or the one of the job that has just finished
    model_names,    \* CognizanceAgent.model_names, fixed at construction
    SUMMARY_CACHE,  \* routes.SUMMARY_CACHE: conversation_id -> entry
    now,            \* time.time()
    reqs,           \* the chat requests, one record per request task
    jobs,           \* the scheduled summarization jobs
    next_sweep      \* the time the sweep loop's sleep ends

vars == <<pq, model_names, SUMMARY_CACHE, now, reqs, jobs, next_sweep>>

None == "None"

\* Optional[Exception] None, and the result of an invocation that has not returned
NoError == [kind |-> "None"]
NoResult == [returned |-> FALSE]

-----------------------------------------------------------------------------
(* Bounds of the model *)

\* the longest fallback list of a configuration
MaxFallbacks == 2

\* the longest chat history of a request
MaxHistory == 18

\* the clock stops after this many ticks
MaxTicks == 3

\* the longest history whose roles are drawn freely
MaxBuilt == 2

-----------------------------------------------------------------------------
(* Program constants *)

max_retries == 3
base_retry_delay == 1
MAX_TURNS == 15
KEEP_LAST == 8
SUMMARY_TTL_SECONDS == 6 * 3600
interval_seconds == 6000

-----------------------------------------------------------------------------
(* Configuration: settings.google_model and settings.fallback_models_list *)

\* GOOGLE_MODEL may be set to the empty string; nothing rejects it
PrimaryNames == {"", "A"}

\* fallback_models_list drops the empty items of the comma-separated string
FallbackNames == {"A", "B"}

RECURSIVE SeqsUpTo(_, _)
SeqsUpTo(S, n) ==
    IF n = 0 THEN {<<>>}
    ELSE LET shorter == SeqsUpTo(S, n - 1)
         IN  shorter \cup {Append(s, x) : s \in {t \in shorter : Len(t) = n - 1}, x \in S}

FallbackLists == SeqsUpTo(FallbackNames, MaxFallbacks)

\* self.model_names = [settings.google_model] + settings.fallback_models_list
ModelNames(google_model, fallback_models_list) ==
    <<google_model>> \o fallback_models_list

Configs == {ModelNames(p, f) : p \in PrimaryNames, f \in FallbackLists}

\* Python truthiness of an Optional[str]
Truthy(s) == s # None /\ s # ""

-----------------------------------------------------------------------------
(* The provider: what one generate_content call can do *)

TransientKinds == {"ResourceExhausted", "TooManyRequests", "ServiceUnavailable"}

\* the HTTP status that google.api_core puts in front of the message
Code(kind) ==
    CASE kind = "ResourceExhausted" -> "429"
      [] kind = "TooManyRequests" -> "429"
      [] kind = "ServiceUnavailable" -> "503"

\* messages of exceptions that are none of the three: str(e) may be empty
OtherMsgs == {<<>>, <<"bad request">>}

\* response.text of a successful call
Answers == {<<"s">>, <<" ", "s", " ">>, <<" ">>, <<>>}

\* the exception raised by the call on candidate mi at attempt a
Exc(kind, msg) == [kind |-> kind, msg |-> msg]

\* the provider's message for a capacity failure names the call it refused
QuotaMsg(mi, a) == <<"quota", ToString(mi), ToString(a)>>

\* str(e): GoogleAPICallError renders "<code> <message>", Exception its message
Str(e) ==
    IF e.kind \in TransientKinds THEN <<Code(e.kind)>> \o e.msg ELSE e.msg

-----------------------------------------------------------------------------
(* process_query *)

ApologyText ==
    <<"I apologize, but I encountered an error processing your request. Please try again or contact our support team.",
      "Error: ">>

QuotaText ==
    <<"All available models have hit their quota limits right now. Please try again in a few minutes.">>

\* model_candidates = [preferred_model] if preferred_model else self.model_names
ModelCandidates(preferred_model, names) ==
    IF Truthy(preferred_model) THEN <<preferred_model>> ELSE names

\* the locals on entry: the first model, the first attempt, no error seen
PQEnter(preferred_model, names) ==
    [ model_candidates |-> ModelCandidates(preferred_model, names),
      mi            |-> 1,        \* position of model_name in model_candidates
      attempt       |-> 0,
      pc            |-> "loop",   \* loop | await | sleep | done
      last_error    |-> NoError,
      result        |-> NoResult,
      inflight      |-> {},       \* provider calls awaited and not yet returned
      call_log      |-> <<>>,     \* positions of the provider calls, in order
      outcomes      |-> <<>>,     \* what each call of call_log did, in order
      delays        |-> <<>> ]    \* the asyncio.sleep delays taken, in order

ModelName(s) == s.model_candidates[s.mi]

InLoop(s) == s.pc = "loop" /\ s.mi <= Len(s.model_candidates)

\* an entry of outcomes: ok | transient | other, and str(e) of a terminal exception
Outcome(class, detail) == [class |-> class, detail |-> detail]

\* the call in flight is over
Returned(s, class, detail) ==
    [s EXCEPT !.inflight = s.inflight \ {s.mi},
              !.outcomes = Append(s.outcomes, Outcome(class, detail))]

\* `continue` / the end of the retry loop: the next attempt, or the next model
NextAttempt(s) ==
    IF s.attempt + 1 < max_retries
    THEN [s EXCEPT !.attempt = s.attempt + 1, !.pc = "loop"]
    ELSE [s EXCEPT !.mi = s.mi + 1, !.attempt = 0, !.pc = "loop"]

\* `break`: leave the retry loop for the next model
NextModel(s) == [s EXCEPT !.mi = s.mi + 1, !.attempt = 0, !.pc = "loop"]

\* the empty identifier is sent to the provider
PQSkipCalls(s) ==
    [s EXCEPT !.pc = "await",
              !.inflight = s.inflight \cup {s.mi},
              !.call_log = Append(s.call_log, s.mi)]

\* if not model_name: continue
PQSkip(s) == NextAttempt(s)

\* a fan-out: the next candidate is called while this call is outstanding
PQCallFanOut(s) ==
    [s EXCEPT !.pc = "await",
              !.inflight = s.inflight \cup {s.mi, s.mi + 1},
              !.call_log = Append(Append(s.call_log, s.mi), s.mi + 1)]

\* await self.client.aio.models.generate_content(model=model_name, ...)
PQCall(s) ==
    [s EXCEPT !.pc = "await",
              !.inflight = s.inflight \cup {s.mi},
              !.call_log = Append(s.call_log, s.mi)]

\* the primary model is reported whichever candidate answered
PQReturnOkPrimary(s, answer) ==
    [Returned(s, "ok", <<>>) EXCEPT
        !.pc = "done",
        !.result = [success |-> TRUE, response |-> answer,
                    model_used |-> s.model_candidates[1]]]

\* the call returned: return {"success": True, "response": answer, "model_used": model_name}
PQReturnOk(s, answer) ==
    [Returned(s, "ok", <<>>) EXCEPT
        !.pc = "done",
        !.result = [success |-> TRUE, response |-> answer, model_used |-> ModelName(s)]]

\* a transient failure abandons the model at once
PQTransientNoRetry(s, e) ==
    NextModel([Returned(s, "transient", <<>>) EXCEPT !.last_error = e])

\* the retry budget is one short
PQTransientOffByOne(s, e) ==
    LET t == [Returned(s, "transient", <<>>) EXCEPT !.last_error = e]
    IN  IF s.attempt < max_retries - 2
        THEN [t EXCEPT !.pc = "sleep",
                       !.delays = Append(s.delays, base_retry_delay * (2 ^ s.attempt))]
        ELSE NextModel(t)

\* last_error keeps the first error seen
PQTransientKeepFirstError(s, e) ==
    LET t == [Returned(s, "transient", <<>>) EXCEPT
                 !.last_error = IF s.last_error = NoError THEN e ELSE s.last_error]
    IN  IF s.attempt < max_retries - 1
        THEN [t EXCEPT !.pc = "sleep",
                       !.delays = Append(s.delays, base_retry_delay * (2 ^ s.attempt))]
        ELSE NextModel(t)

\* the last attempt starts the same model over instead of leaving it
PQTransientRetryForever(s, e) ==
    LET t == [Returned(s, "transient", <<>>) EXCEPT !.last_error = e]
    IN  IF s.attempt < max_retries - 1
        THEN [t EXCEPT !.pc = "sleep",
                       !.delays = Append(s.delays, base_retry_delay * (2 ^ s.attempt))]
        ELSE [t EXCEPT !.attempt = 0, !.pc = "loop"]

\* the exponent starts at 1
PQTransientBackoffFromOne(s, e) ==
    LET t == [Returned(s, "transient", <<>>) EXCEPT !.last_error = e]
    IN  IF s.attempt < max_retries - 1
        THEN [t EXCEPT !.pc = "sleep",
                       !.delays = Append(s.delays, base_retry_delay * (2 ^ (s.attempt + 1)))]
        ELSE NextModel(t)

\* except (ResourceExhausted, TooManyRequests, ServiceUnavailable) as e
PQTransient(s, e) ==
    LET t == [Returned(s, "transient", <<>>) EXCEPT !.last_error = e]
    IN  IF s.attempt < max_retries - 1
        THEN [t EXCEPT !.pc = "sleep",
                       !.delays = Append(s.delays, base_retry_delay * (2 ^ s.attempt))]
        ELSE NextModel(t)

\* asyncio.sleep(delay) is over: continue
PQWake(s) == NextAttempt(s)

\* any exception is taken for a capacity failure
PQOtherFailsOver(s, e) ==
    LET t == [Returned(s, "other", Str(e)) EXCEPT !.last_error = e]
    IN  IF s.attempt < max_retries - 1
        THEN [t EXCEPT !.pc = "sleep",
                       !.delays = Append(s.delays, base_retry_delay * (2 ^ s.attempt))]
        ELSE NextModel(t)

\* except Exception as e: return the failure at once
PQOther(s, e) ==
    [Returned(s, "other", Str(e)) EXCEPT
        !.pc = "done",
        !.result = [success |-> FALSE, response |-> ApologyText \o Str(e),
                    error |-> Str(e)]]

\* _build_history or GenerateContentConfig raised before the loops: the
\* exception leaves process_query
PQRaise(s) == [s EXCEPT !.pc = "raised"]

\* after the loops: all models exhausted
PQExhausted(s) ==
    [s EXCEPT !.pc = "done",
              !.result = [success |-> FALSE, response |-> QuotaText,
                          error |-> IF s.last_error # NoError THEN Str(s.last_error)
                                    ELSE <<"Quota exceeded on all models">>]]

-----------------------------------------------------------------------------
(* _build_history *)

\* the roles a turn may carry: any string, or no role at all (None)
RawRoles ==
    {"user", "assistant", "system", "User", "ASSISTANT", "System", "tool", "", None}

\* str.lower() on these roles
Lower(role) ==
    CASE role = "User" -> "user"
      [] role = "ASSISTANT" -> "assistant"
      [] role = "System" -> "system"
      [] OTHER -> role

\* raw_role = (msg.get("role") or "").lower()
RawRole(msg) == Lower(IF msg.role = None THEN "" ELSE msg.role)

\* the roles are compared as they come, without lower()
ProviderRoleCaseSensitive(msg) ==
    LET raw_role == IF msg.role = None THEN "" ELSE msg.role
    IN  CASE raw_role = "user" -> "user"
          [] raw_role = "assistant" -> "model"
          [] raw_role = "system" -> "system"
          [] OTHER -> "model"

\* the if / elif chain on raw_role
ProviderRole(msg) ==
    LET raw_role == RawRole(msg)
    IN  CASE raw_role = "user" -> "user"
          [] raw_role = "assistant" -> "model"
          [] raw_role = "system" -> "system"
          [] OTHER -> "model"

\* types.Content(role=role, parts=[types.Part.from_text(text=...)])
Content(role, text) == [role |-> role, parts |-> <<text>>]

\* _build_history(chat_history): chat_history is None or a list of turns
BuildHistory(chat_history) ==
    IF chat_history.none \/ chat_history.turns = <<>> THEN <<>>
    ELSE [i \in 1..Len(chat_history.turns) |->
             Content(ProviderRole(chat_history.turns[i]),
                     chat_history.turns[i].content)]

\* process_query entered with a chat_history: history = self._build_history(chat_history)
PQEnterHistory(chat_history, preferred_model, names) ==
    [chat_history |-> chat_history, history |-> BuildHistory(chat_history)]
        @@ PQEnter(preferred_model, names)

-----------------------------------------------------------------------------
(* process_query as a function of what the provider does: script[k] is the  *)
(* outcome of the k-th call, the last entry standing for every later call.  *)
(* An invocation touches nothing but its own locals, so the chat handler    *)
(* and the summarization job take its result in one step.                   *)

OkOut(answer) == [class |-> "ok", val |-> answer]
TransientOut(kind) == [class |-> "transient", val |-> <<kind>>]
OtherOut(msg) == [class |-> "other", val |-> msg]

PQApply(s, o) ==
    CASE o.class = "ok" -> PQReturnOk(s, o.val)
      [] o.class = "transient" ->
             PQTransient(s, Exc(o.val[1], QuotaMsg(s.mi, s.attempt)))
      [] o.class = "other" -> PQOther(s, Exc("Other", o.val))

RECURSIVE PQRun(_, _)
PQRun(s, script) ==
    CASE s.pc = "done" -> s
      [] s.pc = "sleep" -> PQRun(PQWake(s), script)
      [] s.pc = "await" ->
             PQRun(PQApply(s, Head(script)),
                   IF Len(script) > 1 THEN Tail(script) ELSE script)
      [] s.pc = "loop" ->
             IF s.mi > Len(s.model_candidates) THEN PQRun(PQExhausted(s), script)
             ELSE IF ~Truthy(ModelName(s)) THEN PQRun(PQSkip(s), script)
             ELSE PQRun(PQCall(s), script)

\* agent.process_query(user_input, chat_history, preferred_model, ...)
process_query(preferred_model, names, script) ==
    PQRun(PQEnter(preferred_model, names), script).result

-----------------------------------------------------------------------------
(* The chat handler: history windowing and the summary cache *)

\* the roles a caller may send; Message.role is any string
RoleOf(i) ==
    CASE i % 6 = 1 -> "user"
      [] i % 6 = 2 -> "assistant"
      [] i % 6 = 3 -> "system"
      [] i % 6 = 4 -> "User"
      [] i % 6 = 5 -> "tool"
      [] OTHER -> ""

\* msg.dict() of the i-th message of a request: its content names its place
Turn(i) == [role |-> RoleOf(i), content |-> <<"turn", ToString(i)>>]

\* an Optional[List]: None, or the list xs
NoHistory == [none |-> TRUE, turns |-> <<>>]
List(xs) == [none |-> FALSE, turns |-> xs]

\* chat_request.chat_history with n messages
ChatHistory(n) == List([i \in 1..n |-> Turn(i)])

\* a Python slice xs[a:b] of a list, 0-based and half-open
Slice(xs, a, b) == [i \in 1..(b - a) |-> xs[a + i]]

\* older = full_history[: len(full_history) - KEEP_LAST]
Older(full_history) == Slice(full_history, 0, Len(full_history) - KEEP_LAST)

\* the window starts one turn late
RecentOneShort(full_history) ==
    Slice(full_history, Len(full_history) - KEEP_LAST + 1, Len(full_history))

\* recent = full_history[len(full_history) - KEEP_LAST :]
Recent(full_history) ==
    Slice(full_history, Len(full_history) - KEEP_LAST, Len(full_history))

\* {"role": "assistant", "content": summary_text}
SummaryTurn(summary_text) == [role |-> "assistant", content |-> summary_text]

EmptyCache == [k \in {} |-> 0]

\* SUMMARY_CACHE with key k deleted / set
Del(cache, k) == [j \in (DOMAIN cache) \ {k} |-> cache[j]]
Put(cache, k, entry) == [j \in (DOMAIN cache) \cup {k} |-> IF j = k THEN entry ELSE cache[j]]

\* the background task a request hands to background_tasks.add_task
NoTask == [pc |-> "none"]
Task(conv_id, older_turns) ==
    [pc |-> "task", conv_id |-> conv_id, older_turns |-> older_turns]

\* the handler up to its await: what it passes on, what it leaves in the
\* cache, the task it adds, and how often it touched the cache
Handled(history, cache, task, touches) ==
    [history |-> history, cache |-> cache, task |-> task, touches |-> touches]

\* the threshold is off by one
HandleThresholdOff(chat_history, conversation_id, cache, t) ==
    LET full_history == chat_history.turns
        recent == Recent(full_history)
    IN  IF chat_history.none \/ chat_history.turns = <<>>
        THEN Handled(NoHistory, cache, NoTask, 0)
        ELSE IF Len(full_history) >= MAX_TURNS
        THEN Handled(List(recent), cache, Task(conversation_id, Older(full_history)), 0)
        ELSE Handled(List(full_history), cache, NoTask, 0)

\* a hit refreshes the entry it read
HandleHitRefreshes(chat_history, conversation_id, cache, t) ==
    LET full_history == chat_history.turns
        older == Older(full_history)
        recent == Recent(full_history)
    IN  IF chat_history.none \/ chat_history.turns = <<>>
        THEN Handled(NoHistory, cache, NoTask, 0)
        ELSE IF Len(full_history) > MAX_TURNS
        THEN IF Truthy(conversation_id) /\ conversation_id \in DOMAIN cache
             THEN LET entry == cache[conversation_id]
                  IN  IF entry.expires_at > t
                      THEN Handled(List(<<SummaryTurn(entry.summary)>> \o recent),
                                   Put(cache, conversation_id,
                                       [entry EXCEPT !.expires_at = t + SUMMARY_TTL_SECONDS]),
                                   NoTask, 2)
                      ELSE Handled(List(recent), Del(cache, conversation_id), NoTask, 3)
             ELSE Handled(List(recent), cache, Task(conversation_id, older),
                          IF Truthy(conversation_id) THEN 1 ELSE 0)
        ELSE Handled(List(full_history), cache, NoTask, 0)

\* an entry is served at the very time it expires
HandleServesExpired(chat_history, conversation_id, cache, t) ==
    LET full_history == chat_history.turns
        older == Older(full_history)
        recent == Recent(full_history)
    IN  IF chat_history.none \/ chat_history.turns = <<>>
        THEN Handled(NoHistory, cache, NoTask, 0)
        ELSE IF Len(full_history) > MAX_TURNS
        THEN IF Truthy(conversation_id) /\ conversation_id \in DOMAIN cache
             THEN LET entry == cache[conversation_id]
                  IN  IF entry.expires_at >= t
                      THEN Handled(List(<<SummaryTurn(entry.summary)>> \o recent),
                                   cache, NoTask, 2)
                      ELSE Handled(List(recent), Del(cache, conversation_id), NoTask, 3)
             ELSE Handled(List(recent), cache, Task(conversation_id, older),
                          IF Truthy(conversation_id) THEN 1 ELSE 0)
        ELSE Handled(List(full_history), cache, NoTask, 0)

\* the entry is deleted without the membership test
HandleUncheckedDelete(chat_history, conversation_id, cache, t) ==
    LET full_history == chat_history.turns
        recent == Recent(full_history)
    IN  IF chat_history.none \/ chat_history.turns = <<>>
        THEN Handled(NoHistory, cache, NoTask, 0)
        ELSE IF Len(full_history) > MAX_TURNS
        THEN IF Truthy(conversation_id)
             THEN Handled(List(recent), Del(cache, conversation_id), NoTask, 3)
             ELSE Handled(List(recent), cache, Task(conversation_id, Older(full_history)), 0)
        ELSE Handled(List(full_history), cache, NoTask, 0)

\* a hit puts the summary in front of the whole history
HandleHitKeepsAll(chat_history, conversation_id, cache, t) ==
    LET full_history == chat_history.turns
        older == Older(full_history)
        recent == Recent(full_history)
    IN  IF chat_history.none \/ chat_history.turns = <<>>
        THEN Handled(NoHistory, cache, NoTask, 0)
        ELSE IF Len(full_history) > MAX_TURNS
        THEN IF Truthy(conversation_id) /\ conversation_id \in DOMAIN cache
             THEN LET entry == cache[conversation_id]
                  IN  IF entry.expires_at > t
                      THEN Handled(List(<<SummaryTurn(entry.summary)>> \o full_history),
                                   cache, NoTask, 2)
                      ELSE Handled(List(recent), Del(cache, conversation_id), NoTask, 3)
             ELSE Handled(List(recent), cache, Task(conversation_id, older),
                          IF Truthy(conversation_id) THEN 1 ELSE 0)
        ELSE Handled(List(full_history), cache, NoTask, 0)

\* chat(), lines 148-227, at time t
Handle(chat_history, conversation_id, cache, t) ==
    LET full_history == chat_history.turns
        older == Older(full_history)
        recent == Recent(full_history)
    IN  IF chat_history.none \/ chat_history.turns = <<>>
        THEN Handled(NoHistory, cache, NoTask, 0)
        ELSE IF Len(full_history) > MAX_TURNS
        THEN IF Truthy(conversation_id) /\ conversation_id \in DOMAIN cache
             THEN LET entry == cache[conversation_id]
                  IN  IF entry.expires_at > t
                      THEN Handled(List(<<SummaryTurn(entry.summary)>> \o recent),
                                   cache, NoTask, 2)
                      ELSE Handled(List(recent), Del(cache, conversation_id), NoTask, 3)
             ELSE Handled(List(recent), cache, Task(conversation_id, older),
                          IF Truthy(conversation_id) THEN 1 ELSE 0)
        ELSE Handled(List(full_history), cache, NoTask, 0)

-----------------------------------------------------------------------------
(* The summarization job and the sweep *)

\* the job names no model
CheaperModelNone(names) == None

\* cheaper_model: the last fallback, or the primary when there is none
CheaperModel(names) == names[Len(names)]

\* str.strip() of a text: leading and trailing whitespace tokens removed
RECURSIVE LStrip(_)
LStrip(text) ==
    IF text # <<>> /\ Head(text) = " " THEN LStrip(Tail(text)) ELSE text

RECURSIVE RStrip(_)
RStrip(text) ==
    IF text # <<>> /\ text[Len(text)] = " "
    THEN RStrip(SubSeq(text, 1, Len(text) - 1)) ELSE text

Strip(text) == RStrip(LStrip(text))

\* a second summary is appended to the one the entry holds
JobWriteAppends(cache, conv_id, summary_result, t) ==
    IF summary_result.success /\ summary_result.response # <<>>
    THEN IF Truthy(conv_id)
         THEN Put(cache, conv_id,
                  [summary |-> (IF conv_id \in DOMAIN cache
                                THEN cache[conv_id].summary ELSE <<>>)
                                   \o Strip(summary_result.response),
                   expires_at |-> t + SUMMARY_TTL_SECONDS])
         ELSE cache
    ELSE cache

\* an overwrite keeps the expiry of the entry it replaces
JobWriteStaleExpiry(cache, conv_id, summary_result, t) ==
    IF summary_result.success /\ summary_result.response # <<>>
    THEN IF Truthy(conv_id)
         THEN Put(cache, conv_id,
                  [summary |-> Strip(summary_result.response),
                   expires_at |-> IF conv_id \in DOMAIN cache
                                  THEN cache[conv_id].expires_at
                                  ELSE t + SUMMARY_TTL_SECONDS])
         ELSE cache
    ELSE cache

\* the success flag is not looked at
JobWriteOnFailure(cache, conv_id, summary_result, t) ==
    IF summary_result.response # <<>>
    THEN IF Truthy(conv_id)
         THEN Put(cache, conv_id,
                  [summary |-> Strip(summary_result.response),
                   expires_at |-> t + SUMMARY_TTL_SECONDS])
         ELSE cache
    ELSE cache

\* the entry is written under whatever conv_id is, None included
JobWriteUnkeyed(cache, conv_id, summary_result, t) ==
    IF summary_result.success /\ summary_result.response # <<>>
    THEN Put(cache, conv_id,
             [summary |-> Strip(summary_result.response),
              expires_at |-> t + SUMMARY_TTL_SECONDS])
    ELSE cache

\* _do(), after its process_query returned summary_result at time t
JobWrite(cache, conv_id, summary_result, t) ==
    IF summary_result.success /\ summary_result.response # <<>>
    THEN IF Truthy(conv_id)
         THEN Put(cache, conv_id,
                  [summary |-> Strip(summary_result.response),
                   expires_at |-> t + SUMMARY_TTL_SECONDS])
         ELSE cache
    ELSE cache

\* an entry at the very time of its expiry is left in place
SweepStrict(cache, t) ==
    LET to_delete == {k \in DOMAIN cache : cache[k].expires_at < t}
    IN  [k \in (DOMAIN cache) \ to_delete |-> cache[k]]

\* one pass of _cleanup_summary_cache_loop at time t
Sweep(cache, t) ==
    LET to_delete == {k \in DOMAIN cache : cache[k].expires_at <= t}
    IN  [k \in (DOMAIN cache) \ to_delete |-> cache[k]]

-----------------------------------------------------------------------------
(* Spec: chat requests, their jobs, the sweep and the clock *)

\* what the provider does to the calls of one invocation
ChatScripts ==
    {<<OkOut(<<"s">>)>>, <<TransientOut("ResourceExhausted")>>}

JobScripts ==
    {<<OkOut(a)>> : a \in Answers}
        \cup {<<OtherOut(<<>>)>>, <<TransientOut("ServiceUnavailable")>>}

\* the configurations the chat service runs under
ChatConfigs == {<<"A", "B">>}

\* the result of a request's invocation and of a job's, by configuration and script
ChatResult[names \in Configs, script \in ChatScripts] ==
    process_query(None, names, script)

SummaryResult[names \in Configs, script \in JobScripts] ==
    process_query(CheaperModel(names), names, script)

\* the locals of a job's invocation when it is over: it returned, or it raised
SummaryInvocation[names \in Configs, script \in JobScripts] ==
    PQRun(PQEnter(CheaperModel(names), names), script)

JobInvocations(names) ==
    {SummaryInvocation[names, script] : script \in JobScripts}
        \cup {PQRaise(PQEnter(CheaperModel(names), names))}

\* no invocation is tracked
NoInvocation == PQEnter(None, <<"A">>)

\* chat_request.conversation_id: absent, empty, or a key
ConversationIds == {None, "", "c1", "c2"}

\* two request tasks at a time; the first sends no identifier or "c1", the
\* second "c1" or "c2", so that they meet on "c1"
Requests == {1, 2}
IdsOf(r) == IF r = 1 THEN {None, "c1"} ELSE {"c1", "c2"}

\* the clock moves by half a TTL: an entry is fresh, then at its expiry, then past it
TickStep == SUMMARY_TTL_SECONDS \div 2

NewRequest ==
    [pc |-> "new", chat_history |-> NoHistory, conversation_id |-> None,
     history |-> NoHistory, task |-> NoTask, touches |-> 0, reply |-> NoResult]

\* the lengths of the histories the concurrent requests send
Lengths == {MAX_TURNS, MAX_TURNS + 1}

Init ==
    /\ model_names \in ChatConfigs
    /\ pq = NoInvocation
    /\ SUMMARY_CACHE = EmptyCache
    /\ now = 0
    /\ reqs = [r \in Requests |-> NewRequest]
    /\ jobs = [r \in Requests |-> NoTask]
    /\ next_sweep = 0

\* no task is added while a job for the same identifier is in flight
ChatArriveDeduplicates(r, chat_history, conversation_id) ==
    /\ reqs[r].pc = "new"
    /\ jobs[r].pc = "none"
    /\ LET h == Handle(chat_history, conversation_id, SUMMARY_CACHE, now)
           in_flight == \E q \in Requests :
                            jobs[q].pc = "running" /\ jobs[q].conv_id = conversation_id
       IN  /\ reqs' = [reqs EXCEPT ![r] =
                          [pc |-> "awaiting", chat_history |-> chat_history,
                           conversation_id |-> conversation_id,
                           history |-> h.history,
                           task |-> IF in_flight THEN NoTask ELSE h.task,
                           touches |-> h.touches, reply |-> NoResult]]
           /\ SUMMARY_CACHE' = h.cache
    /\ pq' = NoInvocation
    /\ UNCHANGED <<model_names, now, jobs, next_sweep>>

\* POST /chat up to `await agent.process_query`: no suspension point before it
ChatArrive(r, chat_history, conversation_id) ==
    /\ reqs[r].pc = "new"
    /\ jobs[r].pc = "none"
    /\ LET h == Handle(chat_history, conversation_id, SUMMARY_CACHE, now)
       IN  /\ reqs' = [reqs EXCEPT ![r] =
                          [pc |-> "awaiting", chat_history |-> chat_history,
                           conversation_id |-> conversation_id,
                           history |-> h.history, task |-> h.task,
                           touches |-> h.touches, reply |-> NoResult]]
           /\ SUMMARY_CACHE' = h.cache
    /\ pq' = NoInvocation
    /\ UNCHANGED <<model_names, now, jobs, next_sweep>>

\* the request awaits the summarization before it replies
ChatReplyAwaitsJob(r) ==
    /\ reqs[r].pc = "awaiting"
    /\ \E script \in ChatScripts :
           LET result == ChatResult[model_names, script]
           IN  reqs' = [reqs EXCEPT ![r].pc = "replied",
                                    ![r].reply =
                                        [success |-> result.success,
                                         response |-> result.response,
                                         error |-> IF result.success THEN <<None>>
                                                   ELSE result.error]]
    /\ \E invocation \in JobInvocations(model_names) :
           SUMMARY_CACHE' =
               IF reqs[r].task.pc = "none" \/ invocation.pc = "raised" THEN SUMMARY_CACHE
               ELSE JobWrite(SUMMARY_CACHE, reqs[r].task.conv_id, invocation.result, now)
    /\ pq' = NoInvocation
    /\ UNCHANGED <<model_names, now, jobs, next_sweep>>

\* result = await agent.process_query(...); return ChatResponse(...)
ChatReply(r) ==
    /\ reqs[r].pc = "awaiting"
    /\ \E script \in ChatScripts :
           LET result == ChatResult[model_names, script]
           IN  reqs' = [reqs EXCEPT ![r].pc = "replied",
                                    ![r].reply =
                                        [success |-> result.success,
                                         response |-> result.response,
                                         error |-> IF result.success THEN <<None>>
                                                   ELSE result.error]]
    /\ pq' = NoInvocation
    /\ UNCHANGED <<model_names, SUMMARY_CACHE, now, jobs, next_sweep>>

\* the response is sent: the background task runs _schedule_summarization,
\* whose asyncio.create_task(_do()) starts the job
JobStart(r) ==
    /\ reqs[r].pc = "replied"
    /\ reqs[r].task.pc = "task"
    /\ reqs' = [reqs EXCEPT ![r] = NewRequest]
    /\ jobs' = [jobs EXCEPT ![r] = [reqs[r].task EXCEPT !.pc = "running"]]
    /\ pq' = NoInvocation
    /\ UNCHANGED <<model_names, SUMMARY_CACHE, now, next_sweep>>

\* ... or raises, which _schedule_summarization ignores
JobStartFails(r) ==
    /\ reqs[r].pc = "replied"
    /\ reqs[r].task.pc = "task"
    /\ reqs' = [reqs EXCEPT ![r] = NewRequest]
    /\ pq' = NoInvocation
    /\ UNCHANGED <<model_names, SUMMARY_CACHE, now, jobs, next_sweep>>

\* a request with no background task is over with its response
ChatEnd(r) ==
    /\ reqs[r].pc = "replied"
    /\ reqs[r].task.pc = "none"
    /\ reqs' = [reqs EXCEPT ![r] = NewRequest]
    /\ pq' = NoInvocation
    /\ UNCHANGED <<model_names, SUMMARY_CACHE, now, jobs, next_sweep>>

\* _do(): the job's process_query returns and the entry is written
JobFinish(r) ==
    /\ jobs[r].pc = "running"
    /\ \E invocation \in JobInvocations(model_names) :
           /\ pq' = invocation
           /\ SUMMARY_CACHE' =
                  IF invocation.pc = "raised" THEN SUMMARY_CACHE
                  ELSE JobWrite(SUMMARY_CACHE, jobs[r].conv_id, invocation.result, now)
    /\ jobs' = [jobs EXCEPT ![r] = NoTask]
    /\ UNCHANGED <<model_names, now, reqs, next_sweep>>

\* the loop ends with its first pass: it never wakes again
SweepPassOnce ==
    /\ now >= next_sweep
    /\ SUMMARY_CACHE' = Sweep(SUMMARY_CACHE, now)
    /\ next_sweep' = (MaxTicks + 1) * TickStep
    /\ pq' = NoInvocation
    /\ UNCHANGED <<model_names, now, reqs, jobs>>

\* the sweep loop wakes from asyncio.sleep(interval_seconds) and makes a pass
SweepPass ==
    /\ now >= next_sweep
    /\ SUMMARY_CACHE' = Sweep(SUMMARY_CACHE, now)
    /\ next_sweep' = now + interval_seconds
    /\ pq' = NoInvocation
    /\ UNCHANGED <<model_names, now, reqs, jobs>>

Tick ==
    /\ now + TickStep <= MaxTicks * TickStep
    /\ now' = now + TickStep
    /\ pq' = NoInvocation
    /\ UNCHANGED <<model_names, SUMMARY_CACHE, reqs, jobs, next_sweep>>

Next ==
    \/ \E r \in Requests, n \in Lengths :
           \E c \in IdsOf(r) : ChatArrive(r, ChatHistory(n), c)
    \/ \E r \in Requests : ChatReply(r)
    \/ \E r \in Requests : JobStart(r)
    \/ \E r \in Requests : JobStartFails(r)
    \/ \E r \in Requests : ChatEnd(r)
    \/ \E r \in Requests : JobFinish(r)
    \/ SweepPass
    \/ Tick

Spec == Init /\ [][Next]_vars

-----------------------------------------------------------------------------
(* FairSpecSweep: the requests of one client, their jobs, the sweep and    *)
(* the clock.  The sweep loop is a task of the event loop and the clock     *)
(* moves on: a pass that can run does run, and time passes.  Nothing makes  *)
(* a request arrive.                                                        *)

NextSweep ==
    \/ \E n \in Lengths, c \in IdsOf(2) : ChatArrive(2, ChatHistory(n), c)
    \/ ChatReply(2)
    \/ JobStart(2)
    \/ JobStartFails(2)
    \/ ChatEnd(2)
    \/ JobFinish(2)
    \/ SweepPass
    \/ Tick

SpecSweep == Init /\ [][NextSweep]_vars

FairSpecSweep == SpecSweep /\ WF_vars(SweepPass) /\ WF_vars(Tick)

-----------------------------------------------------------------------------
(* SpecJobs: the long requests of one client and their jobs, under every   *)
(* configuration of the models                                              *)

InitJobs ==
    /\ model_names \in Configs
    /\ pq = NoInvocation
    /\ SUMMARY_CACHE = EmptyCache
    /\ now = 0
    /\ reqs = [r \in Requests |-> NewRequest]
    /\ jobs = [r \in Requests |-> NoTask]
    /\ next_sweep = interval_seconds

NextJobs ==
    \/ \E c \in IdsOf(1) : ChatArrive(1, ChatHistory(MAX_TURNS + 1), c)
    \/ ChatReply(1)
    \/ JobStart(1)
    \/ JobStartFails(1)
    \/ ChatEnd(1)
    \/ JobFinish(1)

SpecJobs == InitJobs /\ [][NextJobs]_vars

-----------------------------------------------------------------------------
(* SpecCompact: one request of any length and identifier, arriving at a    *)
(* cache as earlier jobs and the clock may have left it                     *)

\* an entry a job wrote at time t
Written(summary, t) == [summary |-> summary, expires_at |-> t + SUMMARY_TTL_SECONDS]

\* what a key of the cache can hold: nothing, or a summary written at time 0
\* or one tick later
Slots == {<<>>} \cup {<<Written(s, w)>> : s \in {<<"s">>, <<>>}, w \in {0, TickStep}}

CacheOf(slot1, slot2) ==
    [k \in (IF slot1 = <<>> THEN {} ELSE {"c1"}) \cup (IF slot2 = <<>> THEN {} ELSE {"c2"})
        |-> IF k = "c1" THEN slot1[1] ELSE slot2[1]]

\* chat_request.chat_history: None, or a list of 0..MaxHistory messages
ChatHistories == {NoHistory} \cup {ChatHistory(n) : n \in 0..MaxHistory}

InitCompact ==
    /\ model_names \in ChatConfigs
    /\ pq = NoInvocation
    /\ \E slot1, slot2 \in Slots : SUMMARY_CACHE = CacheOf(slot1, slot2)
    /\ now \in {2 * TickStep, 3 * TickStep}
    /\ reqs = [r \in Requests |-> NewRequest]
    /\ jobs = [r \in Requests |-> NoTask]
    /\ next_sweep = now + interval_seconds

NextCompact ==
    \/ \E h \in ChatHistories, c \in ConversationIds : ChatArrive(1, h, c)
    \/ ChatReply(1)
    \/ JobStart(1)
    \/ JobStartFails(1)
    \/ ChatEnd(1)
    \/ JobFinish(1)

SpecCompact == InitCompact /\ [][NextCompact]_vars

-----------------------------------------------------------------------------
(* SpecPQ: one process_query invocation against a nondeterministic provider *)

PreferredModels == {None, "", "A", "B"}

InitPQ ==
    /\ model_names \in Configs
    /\ \E preferred_model \in PreferredModels :
           pq = PQEnter(preferred_model, model_names)
    /\ SUMMARY_CACHE = EmptyCache
    /\ now = 0
    /\ reqs = [r \in Requests |-> NewRequest]
    /\ jobs = [r \in Requests |-> NoTask]
    /\ next_sweep = 0

PQFrame == UNCHANGED <<model_names, SUMMARY_CACHE, now, reqs, jobs, next_sweep>>

Skip ==
    /\ InLoop(pq) /\ ~Truthy(ModelName(pq))
    /\ pq' = PQSkip(pq)
    /\ PQFrame

Call ==
    /\ InLoop(pq) /\ Truthy(ModelName(pq))
    /\ pq' = PQCall(pq)
    /\ PQFrame

ReturnOk ==
    /\ pq.pc = "await"
    /\ \E answer \in Answers : pq' = PQReturnOk(pq, answer)
    /\ PQFrame

RaiseTransient ==
    /\ pq.pc = "await"
    /\ \E kind \in TransientKinds :
           pq' = PQTransient(pq, Exc(kind, QuotaMsg(pq.mi, pq.attempt)))
    /\ PQFrame

Wake ==
    /\ pq.pc = "sleep"
    /\ pq' = PQWake(pq)
    /\ PQFrame

RaiseOther ==
    /\ pq.pc = "await"
    /\ \E msg \in OtherMsgs : pq' = PQOther(pq, Exc("Other", msg))
    /\ PQFrame

Exhausted ==
    /\ pq.pc = "loop" /\ pq.mi > Len(pq.model_candidates)
    /\ pq' = PQExhausted(pq)
    /\ PQFrame

NextPQ == Skip \/ Call \/ ReturnOk \/ RaiseTransient \/ Wake \/ RaiseOther \/ Exhausted

SpecPQ == InitPQ /\ [][NextPQ]_vars

\* every suspended or runnable invocation is resumed: the event loop is fair
FairSpecPQ == SpecPQ /\ WF_vars(NextPQ)

-----------------------------------------------------------------------------
(* SpecHistory: one invocation entered with a history of freely chosen roles *)

\* the i-th turn of a history, with the given role
RoleTurn(role, i) == [role |-> role, content |-> <<"turn", ToString(i)>>]

\* None, the empty list, and the lists of 1..MaxBuilt turns
RoleHistories ==
    {NoHistory} \cup
        {List([i \in 1..Len(roles) |-> RoleTurn(roles[i], i)]) :
             roles \in SeqsUpTo(RawRoles, MaxBuilt)}

InitHistory ==
    /\ model_names = <<"", "A">>
    /\ \E chat_history \in RoleHistories :
           pq = PQEnterHistory(chat_history, None, model_names)
    /\ SUMMARY_CACHE = EmptyCache
    /\ now = 0
    /\ reqs = [r \in Requests |-> NewRequest]
    /\ jobs = [r \in Requests |-> NoTask]
    /\ next_sweep = 0

SpecHistory == InitHistory /\ [][NextPQ]_vars

-----------------------------------------------------------------------------
(* Properties of process_query, read off the logs of one invocation *)

\* the calls of the log made to position i
CallsAt(s, i) == {k \in 1..Len(s.call_log) : s.call_log[k] = i}

\* the calls of the log that have returned
ReturnedCalls(s) == 1..Len(s.outcomes)

\* the first n calls all failed with a capacity error
FirstTransient(s, n) ==
    /\ Len(s.outcomes) >= n
    /\ \A k \in 1..n : s.outcomes[k].class = "transient"

AllTruthy(s) == \A i \in 1..Len(s.model_candidates) : Truthy(s.model_candidates[i])

Rep(x, n) == [k \in 1..n |-> x]

\* C1: when the first candidate A fails with a capacity error on its first N
\* attempts (N in 0..2) the invocation stays on A for attempt N+1, and when
\* that attempt succeeds the result is success with model_used = A after
\* exactly N+1 calls, all of them to A.
C1_RetrySameModel ==
    \A N \in 0..(max_retries - 1) :
        (Truthy(pq.model_candidates[1]) /\ FirstTransient(pq, N)) =>
            /\ (Len(pq.outcomes) = N /\ pq.pc # "done") =>
                   /\ pq.mi = 1
                   /\ pq.call_log \in {Rep(1, N), Rep(1, N + 1)}
                   /\ pq.pc = "loop" => pq.attempt = N
            /\ (Len(pq.outcomes) > N /\ pq.outcomes[N + 1].class = "ok") =>
                   /\ pq.pc = "done"
                   /\ pq.result.success
                   /\ pq.result.model_used = pq.model_candidates[1]
                   /\ pq.call_log = Rep(1, N + 1)

C1_Witness ==
    /\ pq.pc = "done"
    /\ Len(pq.model_candidates) >= 2
    /\ Len(pq.outcomes) = 3
    /\ FirstTransient(pq, 2)
    /\ pq.outcomes[3].class = "ok"
    /\ pq.result.success

\* a position the invocation has left behind
Abandoned(s) == 1..(IF s.mi - 1 < Len(s.model_candidates) THEN s.mi - 1
                    ELSE Len(s.model_candidates))

\* C2 as stated: A failing on all 3 attempts and B succeeding at once gives
\* success with model_used = B after the calls A, A, A, B; and every model
\* left for the next candidate has had exactly 3 capacity failures.
C2_FailoverAfterThree ==
    /\ (/\ Len(pq.model_candidates) >= 2
        /\ Truthy(pq.model_candidates[1])
        /\ FirstTransient(pq, max_retries)
        /\ Len(pq.outcomes) > max_retries
        /\ pq.outcomes[max_retries + 1].class = "ok") =>
           /\ pq.pc = "done"
           /\ pq.result.success
           /\ pq.result.model_used = pq.model_candidates[2]
           /\ pq.call_log = <<1, 1, 1, 2>>
    /\ \A i \in Abandoned(pq) :
           /\ Cardinality(CallsAt(pq, i)) = max_retries
           /\ \A k \in CallsAt(pq, i) : pq.outcomes[k].class = "transient"

\* C2 amended: the same, where a candidate whose identifier is empty is left
\* without any call and every other one after exactly 3 capacity failures.
C2_FailoverAfterThreeOrEmpty ==
    /\ (/\ Len(pq.model_candidates) >= 2
        /\ Truthy(pq.model_candidates[1])
        /\ FirstTransient(pq, max_retries)
        /\ Len(pq.outcomes) > max_retries
        /\ pq.outcomes[max_retries + 1].class = "ok") =>
           /\ pq.pc = "done"
           /\ pq.result.success
           /\ pq.result.model_used = pq.model_candidates[2]
           /\ pq.call_log = <<1, 1, 1, 2>>
    /\ \A i \in Abandoned(pq) :
           IF Truthy(pq.model_candidates[i])
           THEN /\ Cardinality(CallsAt(pq, i)) = max_retries
                /\ \A k \in CallsAt(pq, i) : pq.outcomes[k].class = "transient"
           ELSE CallsAt(pq, i) = {}

C2_Witness ==
    /\ pq.pc = "done"
    /\ pq.result.success
    /\ pq.call_log = <<1, 1, 1, 2>>
    /\ pq.model_candidates[1] # pq.model_candidates[2]

\* C3: a failure that is no capacity failure is the last call of the
\* invocation: it returns at once a failure whose error is str(e), whatever
\* the attempt and the candidate, and however many candidates follow.
C3_TerminalShortCircuit ==
    \A k \in ReturnedCalls(pq) :
        pq.outcomes[k].class = "other" =>
            /\ k = Len(pq.call_log)
            /\ pq.pc = "done"
            /\ pq.inflight = {}
            /\ ~pq.result.success
            /\ pq.result.error = pq.outcomes[k].detail
            /\ pq.result.response = ApologyText \o pq.outcomes[k].detail

C3_Witness ==
    /\ pq.pc = "done"
    /\ Len(pq.model_candidates) = 3
    /\ pq.call_log = <<1, 1>>
    /\ pq.outcomes[2].class = "other"
    /\ pq.outcomes[2].detail # <<>>
    /\ ~pq.result.success

\* C4: when every candidate fails with capacity errors through its whole
\* budget, the result is the quota failure, its error is str() of the error
\* raised by the third attempt on the last candidate, and each candidate was
\* called exactly 3 times.
C4_AllExhausted ==
    LET n == Len(pq.model_candidates)
    IN  (/\ pq.pc = "done"
         /\ AllTruthy(pq)
         /\ FirstTransient(pq, Len(pq.outcomes))) =>
            /\ ~pq.result.success
            /\ pq.result.response = QuotaText
            /\ \E kind \in TransientKinds :
                   pq.result.error = Str(Exc(kind, QuotaMsg(n, max_retries - 1)))
            /\ \A i \in 1..n : Cardinality(CallsAt(pq, i)) = max_retries

C4_Witness ==
    /\ pq.pc = "done"
    /\ AllTruthy(pq)
    /\ Len(pq.model_candidates) = 3
    /\ Len(pq.outcomes) = 9
    /\ FirstTransient(pq, 9)
    /\ pq.result.response = QuotaText

\* C5 as stated: at most one call is outstanding; a call to candidate i+1
\* comes only after 3 capacity failures on candidate i; the positions called
\* never decrease.
C5_SequentialInOrder ==
    /\ Cardinality(pq.inflight) <= 1
    /\ \A k \in 1..Len(pq.call_log) :
           pq.call_log[k] > 1 =>
               LET before == {j \in CallsAt(pq, pq.call_log[k] - 1) : j < k}
               IN  /\ Cardinality(before) = max_retries
                   /\ \A j \in before : pq.outcomes[j].class = "transient"
    /\ \A j, k \in 1..Len(pq.call_log) : j < k => pq.call_log[j] <= pq.call_log[k]

\* C5 amended: as stated, except that a candidate with an empty identifier
\* is passed over without any call.
C5_SequentialInOrderOrEmpty ==
    /\ Cardinality(pq.inflight) <= 1
    /\ \A k \in 1..Len(pq.call_log) :
           pq.call_log[k] > 1 =>
               LET before == {j \in CallsAt(pq, pq.call_log[k] - 1) : j < k}
               IN  IF Truthy(pq.model_candidates[pq.call_log[k] - 1])
                   THEN /\ Cardinality(before) = max_retries
                        /\ \A j \in before : pq.outcomes[j].class = "transient"
                   ELSE before = {}
    /\ \A j, k \in 1..Len(pq.call_log) : j < k => pq.call_log[j] <= pq.call_log[k]

C5_Witness ==
    /\ pq.pc = "await"
    /\ pq.call_log = <<1, 1, 1, 2, 2, 2, 3>>
    /\ pq.inflight = {3}

\* C6: whatever the provider does, an invocation makes at most
\* 3 x len(candidates) calls, and returns as long as every call returns or
\* fails.
C6_Terminates ==
    /\ [](Len(pq.call_log) <= max_retries * Len(pq.model_candidates))
    /\ <>(pq.pc = "done")

C6_Witness ==
    /\ pq.pc = "done"
    /\ Len(pq.model_candidates) = 3
    /\ Len(pq.call_log) = max_retries * 3

-----------------------------------------------------------------------------
(* Properties of the chat handler *)

\* the step in which request r runs the handler up to its await
Arrives(r) == reqs[r].pc = "new" /\ reqs'[r].pc = "awaiting"

\* the last n elements of a list
Last(xs, n) == SubSeq(xs, Len(xs) - n + 1, Len(xs))

Fresh(cache, id, t) ==
    Truthy(id) /\ id \in DOMAIN cache /\ cache[id].expires_at > t

Expired(cache, id, t) ==
    Truthy(id) /\ id \in DOMAIN cache /\ cache[id].expires_at <= t

\* C7: a request with at most 15 turns passes its turns on unchanged (a
\* history of no turns is passed as None, which the orchestrator reads as
\* no turns), adds no summarization task, and neither touches nor changes
\* the cache, whatever its identifier and whatever the cache holds.
C7_ShortHistoryUntouched ==
    [][\A r \in Requests :
          (Arrives(r) /\ Len(reqs'[r].chat_history.turns) <= MAX_TURNS) =>
              /\ reqs'[r].history =
                     (IF reqs'[r].chat_history.turns = <<>> THEN NoHistory
                      ELSE reqs'[r].chat_history)
              /\ reqs'[r].task = NoTask
              /\ reqs'[r].touches = 0
              /\ SUMMARY_CACHE' = SUMMARY_CACHE
              /\ jobs' = jobs]_vars

C7_Witness ==
    /\ reqs[1].pc = "awaiting"
    /\ Len(reqs[1].chat_history.turns) = MAX_TURNS
    /\ reqs[1].history = reqs[1].chat_history
    /\ Fresh(SUMMARY_CACHE, reqs[1].conversation_id, now)

\* C8: a request with more than 15 turns passes on a history whose last 8
\* turns are the last 8 turns it received, in order and unmodified, in every
\* cache state; the older turns it hands to a task are the first len-8.
C8_RecentVerbatim ==
    \A r \in Requests :
        LET full_history == reqs[r].chat_history.turns
            history == reqs[r].history.turns
        IN  (reqs[r].pc # "new" /\ Len(full_history) > MAX_TURNS) =>
                /\ ~reqs[r].history.none
                /\ Len(history) >= KEEP_LAST
                /\ Last(history, KEEP_LAST) = Last(full_history, KEEP_LAST)
                /\ reqs[r].task.pc = "task" =>
                       reqs[r].task.older_turns =
                           SubSeq(full_history, 1, Len(full_history) - KEEP_LAST)

C8_Witness ==
    /\ reqs[1].pc = "awaiting"
    /\ Len(reqs[1].chat_history.turns) = MAX_TURNS + 3
    /\ Len(reqs[1].history.turns) = KEEP_LAST + 1
    /\ reqs[1].history.turns[KEEP_LAST + 1] = Turn(MAX_TURNS + 3)

\* C9: a request with more than 15 turns whose identifier has an unexpired
\* entry passes on one assistant turn holding the cached summary followed by
\* its last 8 turns, adds no task, and leaves the cache as it was: every
\* such lookup returns the text the entry holds and changes nothing of it.
C9_HitPrependsSummary ==
    [][\A r \in Requests :
          (/\ Arrives(r)
           /\ Len(reqs'[r].chat_history.turns) > MAX_TURNS
           /\ Fresh(SUMMARY_CACHE, reqs'[r].conversation_id, now)) =>
              /\ reqs'[r].history =
                     List(<<SummaryTurn(SUMMARY_CACHE[reqs'[r].conversation_id].summary)>>
                              \o Last(reqs'[r].chat_history.turns, KEEP_LAST))
              /\ reqs'[r].task = NoTask
              /\ jobs' = jobs
              /\ SUMMARY_CACHE' = SUMMARY_CACHE]_vars

\* two lookups of "c1" hold the summary the entry still holds
C9_Witness ==
    /\ \A r \in Requests :
           /\ reqs[r].pc = "awaiting"
           /\ reqs[r].conversation_id = "c1"
           /\ reqs[r].touches = 2
           /\ "c1" \in DOMAIN SUMMARY_CACHE
           /\ reqs[r].history.turns[1] = SummaryTurn(SUMMARY_CACHE["c1"].summary)
    /\ now > 0

\* C10: a request with more than 15 turns that finds an expired entry does
\* what it does for an identifier the cache does not hold: it passes on its
\* last 8 turns alone and adds a summarization task over the older turns,
\* keyed by its identifier.
C10_ExpiredLikeMissing ==
    [][\A r \in Requests :
          LET id == reqs'[r].conversation_id
              full_history == reqs'[r].chat_history.turns
          IN  (/\ Arrives(r)
               /\ Len(full_history) > MAX_TURNS
               /\ Truthy(id)
               /\ (id \notin DOMAIN SUMMARY_CACHE \/ Expired(SUMMARY_CACHE, id, now))) =>
                  /\ reqs'[r].history = List(Last(full_history, KEEP_LAST))
                  /\ reqs'[r].task =
                         Task(id, SubSeq(full_history, 1, Len(full_history) - KEEP_LAST))]_vars

-----------------------------------------------------------------------------
(* Properties of the summary cache under interleaving *)

\* C11: a request that arrives when the entry of its identifier has
\* expires_at <= the time of the lookup never gets that entry's summary in
\* the history it passes on, whether or not a sweep has run since the expiry;
\* when it looks the entry up (more than 15 turns) it passes on its last 8
\* turns alone and deletes that entry and no other.
C11_ExpiredNeverUsed ==
    [][\A r \in Requests :
          LET id == reqs'[r].conversation_id
              full_history == reqs'[r].chat_history.turns
              history == reqs'[r].history.turns
          IN  (Arrives(r) /\ Expired(SUMMARY_CACHE, id, now)) =>
                  /\ \A i \in 1..Len(history) :
                         history[i] # SummaryTurn(SUMMARY_CACHE[id].summary)
                  /\ Len(full_history) > MAX_TURNS =>
                         /\ reqs'[r].history = List(Last(full_history, KEEP_LAST))
                         /\ SUMMARY_CACHE' = Del(SUMMARY_CACHE, id)
                         /\ id \notin DOMAIN SUMMARY_CACHE']_vars

\* the lookup met the expired entry before any sweep did
C11_Witness ==
    /\ reqs[2].pc = "awaiting"
    /\ reqs[2].conversation_id = "c1"
    /\ reqs[2].touches = 3
    /\ reqs[2].history = List(Last(reqs[2].chat_history.turns, KEEP_LAST))
    /\ "c1" \notin DOMAIN SUMMARY_CACHE
    /\ next_sweep <= now - SUMMARY_TTL_SECONDS

\* the step in which the job of slot r is over
Finishes(r) == jobs[r].pc = "running" /\ jobs'[r].pc = "none"

\* the invocation returned a success result / one with a text / failed
Succeeded(invocation) == invocation.pc = "done" /\ invocation.result.success

Produced(invocation) == Succeeded(invocation) /\ invocation.result.response # <<>>

Failed(invocation) ==
    invocation.pc = "raised" \/ (invocation.pc = "done" /\ ~invocation.result.success)

\* the entry a job writes at time t for the text its invocation returned
EntryOf(invocation, t) ==
    [summary |-> Strip(invocation.result.response),
     expires_at |-> t + SUMMARY_TTL_SECONDS]

WellFormed(cache) ==
    \A k \in DOMAIN cache :
        Truthy(k) /\ DOMAIN cache[k] = {"summary", "expires_at"}

\* C12: the cache maps each identifier to one entry; a job that produced a
\* summary for an identifier leaves, for that identifier, the entry made of
\* its own summary and nothing of the entry it found, and adds a key only
\* when the identifier had none: of two jobs for one identifier the entry is
\* the one of the job that finished last, whichever was scheduled first.
C12_LastWriterWins ==
    /\ []WellFormed(SUMMARY_CACHE)
    /\ [][\A r \in Requests :
             LET id == jobs[r].conv_id
             IN  (Finishes(r) /\ Truthy(id) /\ Produced(pq')) =>
                     /\ SUMMARY_CACHE'[id] = EntryOf(pq', now)
                     /\ DOMAIN SUMMARY_CACHE' = DOMAIN SUMMARY_CACHE \cup {id}
                     /\ Cardinality(DOMAIN SUMMARY_CACHE') =
                            Cardinality(DOMAIN SUMMARY_CACHE)
                                + (IF id \in DOMAIN SUMMARY_CACHE THEN 0 ELSE 1)]_vars

\* a request still holds the summary of the job that finished first, and the
\* cache holds that of the job that has just finished
C12_Witness ==
    /\ Produced(pq)
    /\ SUMMARY_CACHE = [k \in {"c1"} |-> EntryOf(pq, now)]
    /\ \E r \in Requests :
           /\ reqs[r].pc = "awaiting"
           /\ reqs[r].conversation_id = "c1"
           /\ reqs[r].touches = 2
           /\ reqs[r].history.turns[1] # SummaryTurn(SUMMARY_CACHE["c1"].summary)
    /\ \A r \in Requests : jobs[r] = NoTask

\* C13 as stated: a job with an identifier whose invocation returns a success
\* result writes the entry {stripped text, now + TTL} for that identifier,
\* over any entry it had, and changes no entry of another identifier.
C13_SuccessWrites ==
    [][\A r \in Requests :
          LET id == jobs[r].conv_id
          IN  (Finishes(r) /\ Truthy(id) /\ Succeeded(pq')) =>
                  SUMMARY_CACHE' = Put(SUMMARY_CACHE, id, EntryOf(pq', now))]_vars

\* C13 amended: the same for a success result whose text is not empty; a
\* success result with an empty text writes nothing.
C13_SuccessWithTextWrites ==
    [][\A r \in Requests :
          LET id == jobs[r].conv_id
          IN  (Finishes(r) /\ Truthy(id) /\ Succeeded(pq')) =>
                  IF pq'.result.response # <<>>
                  THEN /\ SUMMARY_CACHE'[id].expires_at = now + SUMMARY_TTL_SECONDS
                       /\ SUMMARY_CACHE'[id].summary = Strip(pq'.result.response)
                       /\ \A k \in (DOMAIN SUMMARY_CACHE) \ {id} :
                              /\ k \in DOMAIN SUMMARY_CACHE'
                              /\ SUMMARY_CACHE'[k] = SUMMARY_CACHE[k]
                       /\ DOMAIN SUMMARY_CACHE' \subseteq DOMAIN SUMMARY_CACHE \cup {id}
                  ELSE SUMMARY_CACHE' = SUMMARY_CACHE]_vars

\* an entry of "c1" written at a later time over an earlier one, "c2" kept
C13_Witness ==
    /\ Produced(pq)
    /\ pq.result.response = <<" ", "s", " ">>
    /\ now = 2 * TickStep
    /\ DOMAIN SUMMARY_CACHE = {"c1", "c2"}
    /\ SUMMARY_CACHE["c1"] = [summary |-> <<"s">>, expires_at |-> now + SUMMARY_TTL_SECONDS]
    /\ SUMMARY_CACHE["c2"].expires_at = TickStep + SUMMARY_TTL_SECONDS
    /\ \E r \in Requests :
           /\ reqs[r].pc = "awaiting"
           /\ reqs[r].conversation_id = "c1"
           /\ reqs[r].touches = 2

\* C14: a job whose invocation returns a failure result or raises leaves the
\* cache and every request and reply as they were and is over: no job of any
\* slot starts in that step; and a job only ever starts from a request that
\* had more than 15 turns, for that request's identifier.
C14_FailureIsSilent ==
    [][\A r \in Requests :
          /\ (Finishes(r) /\ Failed(pq')) =>
                 /\ SUMMARY_CACHE' = SUMMARY_CACHE
                 /\ reqs' = reqs
                 /\ jobs' = [jobs EXCEPT ![r] = NoTask]
          /\ (jobs[r].pc # "running" /\ jobs'[r].pc = "running") =>
                 /\ reqs[r].pc = "replied"
                 /\ Len(reqs[r].chat_history.turns) > MAX_TURNS
                 /\ jobs'[r].conv_id = reqs[r].conversation_id]_vars

\* a job failed on quota while a request had its successful reply and the
\* cache held an entry
C14_Witness ==
    /\ pq.pc = "done"
    /\ ~pq.result.success
    /\ pq.result.response = QuotaText
    /\ "c1" \in DOMAIN SUMMARY_CACHE
    /\ \E r \in Requests : reqs[r].pc = "replied" /\ reqs[r].reply.success
    /\ \A r \in Requests : jobs[r] = NoTask

-----------------------------------------------------------------------------
(* Properties of the sweep *)

\* the step in which the sweep loop makes a pass
Sweeps == next_sweep' # next_sweep

\* C15: right after a pass of the sweep that read the clock at time now, the
\* cache holds no entry with expires_at <= now, and every entry with
\* expires_at > now is still there, unchanged.
C15_SweepPostcondition ==
    [][Sweeps =>
          /\ \A k \in DOMAIN SUMMARY_CACHE' : SUMMARY_CACHE'[k].expires_at > now
          /\ \A k \in DOMAIN SUMMARY_CACHE :
                 SUMMARY_CACHE[k].expires_at > now =>
                     /\ k \in DOMAIN SUMMARY_CACHE'
                     /\ SUMMARY_CACHE'[k] = SUMMARY_CACHE[k]]_vars

\* a pass has just removed the entry of "c1", whose summary a request still
\* holds, and kept the later entry of "c2"
C15_Witness ==
    /\ next_sweep = now + interval_seconds
    /\ pq = NoInvocation
    /\ DOMAIN SUMMARY_CACHE = {"c2"}
    /\ SUMMARY_CACHE["c2"].expires_at = now + TickStep
    /\ reqs[1].pc = "awaiting"
    /\ reqs[1].conversation_id = "c1"
    /\ reqs[1].touches = 2
    /\ reqs[2] = NewRequest

\* the end of the modelled time, and the times the loop's sleep can end at
Horizon == MaxTicks * TickStep

WakeTimes == {0} \cup {k * TickStep + interval_seconds : k \in 0..MaxTicks}

-----------------------------------------------------------------------------
(* Properties of the shared cache and of the results *)

\* C17: the cache is always a mapping from identifier to one {summary,
\* expires_at} entry; a request that reads or deletes an entry does so in the
\* step of its membership test, so the key is there; a sweep pass deletes
\* only keys it has just listed; whatever requests, jobs and passes run in
\* between.
C17_NoMissingKey ==
    /\ []WellFormed(SUMMARY_CACHE)
    /\ [][\A r \in Requests :
             /\ (Arrives(r) /\ reqs'[r].touches \in {2, 3}) =>
                    /\ reqs'[r].conversation_id \in DOMAIN SUMMARY_CACHE
                    /\ reqs'[r].touches = 3 =>
                           SUMMARY_CACHE' = Del(SUMMARY_CACHE, reqs'[r].conversation_id)
             /\ Sweeps =>
                    /\ DOMAIN SUMMARY_CACHE' \subseteq DOMAIN SUMMARY_CACHE
                    /\ \A k \in (DOMAIN SUMMARY_CACHE) \ (DOMAIN SUMMARY_CACHE') :
                           SUMMARY_CACHE[k].expires_at <= now]_vars

\* one request deleted the expired entry of "c1" and the other, arriving
\* after it, found "c1" missing, with a sweep pass made in between times
C17_Witness ==
    /\ reqs[1].pc = "awaiting" /\ reqs[1].conversation_id = "c1"
    /\ reqs[2].pc = "awaiting" /\ reqs[2].conversation_id = "c1"
    /\ {reqs[1].touches, reqs[2].touches} = {1, 3}
    /\ "c1" \notin DOMAIN SUMMARY_CACHE
    /\ next_sweep > now

\* the candidate the last call went to
LastCalled(s) == s.model_candidates[s.call_log[Len(s.call_log)]]

\* C18 as stated: an invocation that returns yields a result with a success
\* flag: a success carries the text and model_used, the candidate whose call
\* succeeded; a failure carries a message and a non-empty error detail.
C18_StructuredResult ==
    pq.pc = "done" =>
        IF pq.result.success
        THEN /\ DOMAIN pq.result = {"success", "response", "model_used"}
             /\ pq.outcomes[Len(pq.outcomes)].class = "ok"
             /\ pq.result.model_used = LastCalled(pq)
             /\ pq.result.response \in Answers
        ELSE /\ DOMAIN pq.result = {"success", "response", "error"}
             /\ pq.result.response # <<>>
             /\ pq.result.error # <<>>

\* C18 amended: the same, where the error detail of a failure is str() of
\* the exception: never empty after exhaustion, and empty after a terminal
\* failure exactly when the exception has no message.
C18_StructuredResultOrEmptyDetail ==
    pq.pc = "done" =>
        IF pq.result.success
        THEN /\ DOMAIN pq.result = {"success", "response", "model_used"}
             /\ pq.outcomes[Len(pq.outcomes)].class = "ok"
             /\ pq.result.model_used = LastCalled(pq)
             /\ pq.result.response \in Answers
        ELSE /\ DOMAIN pq.result = {"success", "response", "error"}
             /\ pq.result.response # <<>>
             /\ IF pq.outcomes # <<>> /\ pq.outcomes[Len(pq.outcomes)].class = "other"
                THEN pq.result.error = pq.outcomes[Len(pq.outcomes)].detail
                ELSE pq.result.error # <<>>

\* a fallback answered after the first candidate was exhausted
C18_Witness ==
    /\ pq.pc = "done"
    /\ pq.result.success
    /\ pq.call_log = <<1, 1, 1, 2>>
    /\ pq.result.model_used = "B"
    /\ pq.model_candidates[1] = "A"

\* C19: the response text of a terminal failure is one fixed text, the same
\* for every error, and the detail of the error is in the error field only.
C19_DetailKeptOut ==
    (/\ pq.pc = "done"
     /\ pq.outcomes # <<>>
     /\ pq.outcomes[Len(pq.outcomes)].class = "other") =>
        /\ pq.result.response = ApologyText
        /\ \A i \in 1..Len(pq.result.response), j \in 1..Len(pq.result.error) :
               pq.result.response[i] # pq.result.error[j]

\* C20: a request with no identifier (None or empty) does not touch the cache
\* and leaves it as it was; the task it adds carries that absent identifier,
\* and a job with an absent identifier leaves the cache as it was, whatever
\* its invocation returned.
C20_NoIdNoCaching ==
    [][\A r \in Requests :
          /\ (Arrives(r) /\ ~Truthy(reqs'[r].conversation_id)) =>
                 /\ reqs'[r].touches = 0
                 /\ SUMMARY_CACHE' = SUMMARY_CACHE
                 /\ reqs'[r].task.pc = "task" =>
                        reqs'[r].task.conv_id = reqs'[r].conversation_id
          /\ (jobs[r].pc # "running" /\ jobs'[r].pc = "running") =>
                 jobs'[r].conv_id = reqs[r].task.conv_id
          /\ (Finishes(r) /\ ~Truthy(jobs[r].conv_id)) =>
                 SUMMARY_CACHE' = SUMMARY_CACHE]_vars

\* a job produced a summary and the cache, empty before, is empty after
C20_Witness ==
    /\ Produced(pq)
    /\ SUMMARY_CACHE = EmptyCache
    /\ jobs[1] = NoTask

-----------------------------------------------------------------------------
(* Properties of the backoff and of empty identifiers *)

\* the attempt index of the k-th call: the calls made before it to its candidate
AttemptOf(s, k) == Cardinality({j \in CallsAt(s, s.call_log[k]) : j < k})

\* the delays due after the first n calls that returned
RECURSIVE DelaysDue(_, _)
DelaysDue(s, n) ==
    IF n = 0 THEN <<>>
    ELSE DelaysDue(s, n - 1) \o
             (IF s.outcomes[n].class = "transient" /\ AttemptOf(s, n) < max_retries - 1
              THEN <<base_retry_delay * (2 ^ AttemptOf(s, n))>>
              ELSE <<>>)

\* C22: the delays an invocation has taken are, in order, base_delay x
\* 2^attempt for each capacity failure at attempt 0 or 1 (1 then 2), none
\* after a failure at attempt 2 and none before a terminal failure; it
\* sleeps only right after a capacity failure at attempt 0 or 1.
C22_BackoffDelays ==
    /\ pq.delays = DelaysDue(pq, Len(pq.outcomes))
    /\ \A k \in 1..Len(pq.delays) : pq.delays[k] \in {1, 2}
    /\ pq.pc = "sleep" =>
           /\ pq.outcomes[Len(pq.outcomes)].class = "transient"
           /\ AttemptOf(pq, Len(pq.outcomes)) < max_retries - 1
           /\ pq.delays[Len(pq.delays)] =
                  base_retry_delay * (2 ^ AttemptOf(pq, Len(pq.outcomes)))
    /\ (pq.pc = "done" /\ ~pq.result.success /\ pq.outcomes # <<>>) =>
           pq.delays = DelaysDue(pq, Len(pq.outcomes) - 1)

\* 1 and 2 on the first candidate, none on leaving it, 1 on the second, and
\* none before the terminal failure that ends the invocation
C22_Witness ==
    /\ pq.pc = "done"
    /\ pq.call_log = <<1, 1, 1, 2, 2>>
    /\ pq.outcomes[5].class = "other"
    /\ pq.delays = <<1, 2, 1>>

\* the first candidate with a non-empty identifier, or one past the last
FirstTruthy(candidates) ==
    LET truthy == {i \in 1..Len(candidates) : Truthy(candidates[i])}
    IN  IF truthy = {} THEN Len(candidates) + 1
        ELSE CHOOSE i \in truthy : \A j \in truthy : i <= j

\* C27: a candidate with an empty identifier gets no call, a skip takes no
\* delay, and the first call goes to the first candidate with a non-empty
\* identifier; when every candidate is empty the invocation makes no call
\* and returns the quota failure with error 'Quota exceeded on all models';
\* an empty or absent preferred_model gives the configured list.
C27_EmptyIdentifierSkipped ==
    /\ \A i \in 1..Len(pq.model_candidates) :
           ~Truthy(pq.model_candidates[i]) => CallsAt(pq, i) = {}
    /\ Len(pq.delays) <= Len(pq.outcomes)
    /\ pq.call_log # <<>> => pq.call_log[1] = FirstTruthy(pq.model_candidates)
    /\ (pq.pc = "done" /\ FirstTruthy(pq.model_candidates) > Len(pq.model_candidates)) =>
           /\ pq.call_log = <<>>
           /\ pq.delays = <<>>
           /\ pq.result = [success |-> FALSE, response |-> QuotaText,
                           error |-> <<"Quota exceeded on all models">>]
    /\ \A preferred_model \in {None, ""} :
           ModelCandidates(preferred_model, model_names) = model_names
    /\ \/ pq.model_candidates = model_names
       \/ Len(pq.model_candidates) = 1 /\ Truthy(pq.model_candidates[1])

\* the empty primary was passed over and the fallback answered at once
C27_Witness ==
    /\ pq.pc = "done"
    /\ pq.model_candidates = <<"", "B">>
    /\ pq.call_log = <<2>>
    /\ pq.delays = <<>>
    /\ pq.result.success
    /\ pq.result.model_used = "B"

-----------------------------------------------------------------------------
(* Properties of _build_history *)

\* the provider role the claim gives to a role
RoleFor(role) ==
    IF role \in {"user", "User"} THEN "user"
    ELSE IF role \in {"system", "System"} THEN "system"
    ELSE "model"

\* C23: the history built for an invocation has one provider message per
\* input turn, in the same order and with the turn's content; its role is
\* user for user, model for assistant, system for system, in any case of
\* letters, and model for any other, empty or missing role; no provider
\* message has the role assistant.
C23_BuildHistoryRoles ==
    LET turns == pq.chat_history.turns
        history == pq.history
    IN  /\ Len(history) = Len(turns)
        /\ \A i \in 1..Len(turns) :
               /\ history[i].parts = <<turns[i].content>>
               /\ history[i].role = RoleFor(turns[i].role)
               /\ history[i].role \in {"user", "model", "system"}
               /\ history[i].role # "assistant"

\* an invocation that went on to call the provider with a history built
\* from the roles User and None
C23_Witness ==
    /\ pq.pc = "await"
    /\ Len(pq.chat_history.turns) = 2
    /\ pq.chat_history.turns[1].role = "User"
    /\ pq.chat_history.turns[2].role = None
    /\ pq.history = <<Content("user", <<"turn", "1">>), Content("model", <<"turn", "2">>)>>

-----------------------------------------------------------------------------
(* Properties of the job's invocation *)

\* C24: the invocation of a job has one candidate, the last entry of the
\* configured list (the primary when there are no fallbacks): it makes at
\* most 3 calls, all to that candidate, and after 3 capacity failures its
\* result is the quota failure with the third error.
C24_JobSingleModel ==
    [][\A r \in Requests :
          Finishes(r) =>
              /\ Len(pq'.model_candidates) = 1
              /\ pq'.model_candidates[1] = model_names[Len(model_names)]
              /\ Len(pq'.call_log) <= max_retries
              /\ \A k \in 1..Len(pq'.call_log) : pq'.call_log[k] = 1
              /\ (pq'.pc = "done" /\ Len(pq'.outcomes) = max_retries
                      /\ FirstTransient(pq', max_retries)) =>
                     /\ ~pq'.result.success
                     /\ pq'.result.response = QuotaText
                     /\ \E kind \in TransientKinds :
                            pq'.result.error =
                                Str(Exc(kind, QuotaMsg(1, max_retries - 1)))]_vars

\* with the models A, A, B configured the job called B three times and gave up
C24_Witness ==
    /\ model_names = <<"A", "A", "B">>
    /\ pq.pc = "done"
    /\ pq.model_candidates = <<"B">>
    /\ pq.call_log = <<1, 1, 1>>
    /\ pq.result.response = QuotaText
    /\ jobs[1] = NoTask

-----------------------------------------------------------------------------
(* Properties of the history passed on and of the scheduling of jobs *)

\* C25: the history a request passes on has at most 15 turns, whatever the
\* length of what it received and whatever the cache holds: all the turns it
\* received when they are at most 15, and otherwise 9 turns when its
\* identifier has an unexpired entry and 8 turns when it has none, an
\* expired one, or the request has no identifier.
C25_HistoryBounded ==
    /\ [](\A r \in Requests : Len(reqs[r].history.turns) <= MAX_TURNS)
    /\ [][\A r \in Requests :
             LET full_history == reqs'[r].chat_history.turns
                 history == reqs'[r].history.turns
             IN  Arrives(r) =>
                     IF Len(full_history) <= MAX_TURNS
                     THEN history = full_history
                     ELSE IF Fresh(SUMMARY_CACHE, reqs'[r].conversation_id, now)
                          THEN Len(history) = KEEP_LAST + 1
                          ELSE Len(history) = KEEP_LAST]_vars

\* the longest history met an unexpired entry: 9 turns go on
C25_Witness ==
    /\ reqs[1].pc = "awaiting"
    /\ Len(reqs[1].chat_history.turns) = MaxHistory
    /\ reqs[1].touches = 2
    /\ Len(reqs[1].history.turns) = KEEP_LAST + 1
    /\ reqs[1].history.turns[2] = Turn(MaxHistory - KEEP_LAST + 1)

\* the step in which request r gets its reply / the job of slot r starts
Replies(r) == reqs[r].pc = "awaiting" /\ reqs'[r].pc = "replied"

Starts(r) == jobs[r].pc # "running" /\ jobs'[r].pc = "running"

\* ChatResponse(success, response, error) for a result of the request's call
ReplyOf(result) ==
    [success |-> result.success, response |-> result.response,
     error |-> IF result.success THEN <<None>> ELSE result.error]

\* C21: a request that waits for its orchestrator call can always be
\* replied to, whatever jobs are in flight; its reply is the result of its
\* own call and the step starts no job and writes no entry; the job it
\* triggers starts only once the reply is made, and a job that finishes, in
\* whatever way, changes no request and no reply.
C21_JobNeverAltersReply ==
    /\ [](\A r \in Requests : reqs[r].pc = "awaiting" => ENABLED ChatReply(r))
    /\ [][\A r \in Requests :
             /\ Replies(r) =>
                    /\ \E script \in ChatScripts :
                           reqs'[r].reply = ReplyOf(process_query(None, model_names, script))
                    /\ jobs' = jobs
                    /\ jobs[r] = NoTask
                    /\ SUMMARY_CACHE' = SUMMARY_CACHE
             /\ Starts(r) =>
                    /\ reqs[r].pc = "replied"
                    /\ reqs' = [reqs EXCEPT ![r] = NewRequest]
             /\ Finishes(r) => reqs' = reqs]_vars

\* a request has its successful reply, its task is added and not started,
\* and the job of the other request has just failed
C21_Witness ==
    /\ reqs[1].pc = "replied"
    /\ reqs[1].task.pc = "task"
    /\ reqs[1].reply.success
    /\ jobs[1] = NoTask
    /\ Failed(pq)

\* C26: a request with more than 15 turns whose identifier the cache does
\* not hold adds exactly the task for its identifier and older turns, also
\* while jobs for that identifier are in flight; a task that starts becomes
\* one job, in its own slot, and stops no other; and each job that produced
\* a summary writes its entry when it finishes.
C26_JobsNotDeduplicated ==
    [][\A r \in Requests :
          LET id == reqs'[r].conversation_id
              full_history == reqs'[r].chat_history.turns
          IN  /\ (/\ Arrives(r)
                  /\ Len(full_history) > MAX_TURNS
                  /\ Truthy(id)
                  /\ id \notin DOMAIN SUMMARY_CACHE) =>
                     /\ reqs'[r].task =
                            Task(id, SubSeq(full_history, 1, Len(full_history) - KEEP_LAST))
                     /\ jobs' = jobs
              /\ Starts(r) =>
                     /\ jobs' = [jobs EXCEPT ![r] = [reqs[r].task EXCEPT !.pc = "running"]]
                     /\ SUMMARY_CACHE' = SUMMARY_CACHE
              /\ (Finishes(r) /\ Truthy(jobs[r].conv_id) /\ Produced(pq')) =>
                     /\ SUMMARY_CACHE'[jobs[r].conv_id] = EntryOf(pq', now)
                     /\ \A q \in Requests \ {r} : jobs'[q] = jobs[q]]_vars

\* two jobs for "c1" are in flight at once
C26_Witness ==
    /\ jobs[1].pc = "running" /\ jobs[1].conv_id = "c1"
    /\ jobs[2].pc = "running" /\ jobs[2].conv_id = "c1"
    /\ "c1" \notin DOMAIN SUMMARY_CACHE

====
